---- MODULE Spec2Model ----
(***************************************************************************)
(* Occupancy counters of urec-tracker: one DynamoDB item per area, updated *)
(* by the Lambda updater (capacity_updater.py), by the REST service        *)
(* (main.py over database.py) and by the admin reset.  Every storage call  *)
(* (update_item, get_item, put_item) is one atomic step on one item; what  *)
(* a handler does between two storage calls is local to its caller.        *)
(***************************************************************************)
EXTENDS Integers, Sequences, FiniteSets, Bags, TLC

\* ------------------------------------------------------------- bounds
MaxCalls == 3                   \* events handled in one behaviour

\* ------------------------------------------------------------- inputs
\* area ids: two seeded by provisioning, one with no record
SeededAreas == {"weight-room", "pool"}
\* INITIAL_AREAS: the max_capacity each is seeded with
InitialMaxCapacity == [a \in SeededAreas |-> IF a = "weight-room" THEN 100 ELSE 40]
AreaIds == SeededAreas \cup {"nonexistent"}
NoField == "<missing>"          \* a key absent from the event body
NoCount == -1                   \* stands for an absent count key
Event(a, action, count) == [area_id |-> a, action |-> action, count |-> count]
\* the event bodies tried: the well-formed ones, the ones that rely on a
\* default or a conversion, and one of each malformed kind
EventAreas == {"weight-room", "nonexistent"}
WellFormed == [area_id : EventAreas, action : {"enter", "exit"}, count : {1, 10}]
Defaulted == {Event("weight-room", "EXIT", 1), Event("weight-room", "exit", NoCount),
              Event("weight-room", NoField, 1)}
Malformed == {Event(NoField, "enter", 1), Event("weight-room", "bogus", 1),
              Event("weight-room", "enter", 0), Event("weight-room", "enter", 11)}
Bodies == WellFormed \cup Defaulted \cup Malformed
ResetCounts == {0, 3, -4}
\* the max_capacity create_area is called with
CreateCapacities == {2}
Resets == EventAreas \X ResetCounts

Max(a, b) == IF a >= b THEN a ELSE b

\* ------------------------------------------------------- stored items
\* faulty variant: every area is stored under the key of one
PKShared(area_id) == "weight-room"

\* pk = f"AREA#{area_id}", sk = "METADATA": the key of the one item a storage
\* call addresses.  table is indexed by area id, a different key for each.
PK(area_id) == area_id

\* One item of the table (PK = AREA#<area_id>, SK = METADATA).  meta is the
\* presence of the registry attributes area_id, name, max_capacity;
\* max_capacity and is_open are 0 and FALSE where the attribute is absent.
NoItem == [present |-> FALSE, meta |-> FALSE, has_count |-> FALSE,
           current_count |-> 0, update_count |-> 0, last_updated |-> 0,
           max_capacity |-> 0, is_open |-> FALSE]

\* put_item of seed_areas / create_area: a complete record with count 0
NewAreaItem(max_capacity, is_open, ts) ==
    [present |-> TRUE, meta |-> TRUE, has_count |-> TRUE,
     current_count |-> 0, update_count |-> 0, last_updated |-> ts,
     max_capacity |-> max_capacity, is_open |-> is_open]

\* faulty variant: the expression starts from :zero whatever is stored
IfNotExistsIgnoresStored(item) == 0

\* if_not_exists(current_count, :zero)
IfNotExists(item) == IF item.present /\ item.has_count THEN item.current_count ELSE 0

\* faulty variant: on an item without current_count the write only creates
\* the attribute at :zero, and the add is left to a later write
LambdaAddExprCreatesFirst(item, inc, ts) ==
    [item EXCEPT !.present = TRUE, !.has_count = TRUE,
                 !.current_count = IF item.present /\ item.has_count
                                      THEN item.current_count + inc ELSE 0,
                 !.last_updated = ts,
                 !.update_count = item.update_count + 1]

\* update_item never carries a ConditionExpression: it writes the item
\* whether or not the key exists (an upsert that creates a partial item).
\* "SET current_count = if_not_exists(current_count, :zero) + :inc,
\*      last_updated = :timestamp ADD update_count :one"
LambdaAddExpr(item, inc, ts) ==
    [item EXCEPT !.present = TRUE, !.has_count = TRUE,
                 !.current_count = IfNotExists(item) + inc,
                 !.last_updated = ts,
                 !.update_count = item.update_count + 1]

\* faulty variant: the corrective write leaves the count as it is
LambdaZeroExprKeepsCount(item) == [item EXCEPT !.present = TRUE, !.has_count = TRUE]

\* "SET current_count = :zero"
LambdaZeroExpr(item) ==
    [item EXCEPT !.present = TRUE, !.has_count = TRUE, !.current_count = 0]

\* faulty variant: the write is conditional on is_open
RestAddExprGated(item, inc, ts) ==
    IF item.is_open
       THEN [item EXCEPT !.present = TRUE, !.has_count = TRUE,
                         !.current_count = IfNotExists(item) + inc,
                         !.last_updated = ts]
       ELSE item

\* "SET current_count = if_not_exists(current_count, :zero) + :inc,
\*      last_updated = :timestamp"
RestAddExpr(item, inc, ts) ==
    [item EXCEPT !.present = TRUE, !.has_count = TRUE,
                 !.current_count = IfNotExists(item) + inc,
                 !.last_updated = ts]

\* faulty variant: :count is the count asked for, negative or not
SetCountExprUnclamped(item, count, ts) ==
    [item EXCEPT !.present = TRUE, !.has_count = TRUE,
                 !.current_count = count,
                 !.last_updated = ts]

\* "SET current_count = :count, last_updated = :timestamp", :count = max(0, count)
SetCountExpr(item, count, ts) ==
    [item EXCEPT !.present = TRUE, !.has_count = TRUE,
                 !.current_count = Max(0, count),
                 !.last_updated = ts]

\* ------------------------------------------------------------ adapters
\* str.lower() on the action field
Lower(s) == IF s = "EXIT" THEN "exit" ELSE IF s = "ENTER" THEN "enter" ELSE s

\* lambda_handler: body.get('action', 'enter').lower(), body.get('count', 1)
LambdaAction(body) == Lower(IF body.action = NoField THEN "enter" ELSE body.action)
LambdaCount(body) == IF body.count = NoCount THEN 1 ELSE body.count
\* faulty variant: the count is not checked against 1..10
LambdaValidAnyCount(body) ==
    /\ body.area_id # NoField
    /\ LambdaAction(body) \in {"enter", "exit"}

\* "if not area_id", "if action not in ['enter', 'exit']",
\* "if not isinstance(count, int) or count < 1 or count > 10"
LambdaValid(body) ==
    /\ body.area_id # NoField
    /\ LambdaAction(body) \in {"enter", "exit"}
    /\ LambdaCount(body) >= 1 /\ LambdaCount(body) <= 10

\* faulty variant: the sign of an exit is dropped
LambdaIncrementUnsigned(action, count) == count

\* capacity_updater.update_capacity: increment = count if enter else -count
LambdaIncrement(action, count) == IF action = "enter" THEN count ELSE -count

\* UpdateCapacityRequest: area_id and action required, count defaults to 1
RestCount(body) == IF body.count = NoCount THEN 1 ELSE body.count
RestValid(body) ==
    /\ body.area_id # NoField
    /\ body.action # NoField
    /\ Lower(body.action) \in {"enter", "exit"}
    /\ RestCount(body) >= 1 /\ RestCount(body) <= 10
\* faulty variant: every event counts as an entry
RestIncrementEnterOnly(action) == 1

\* DynamoDBManager.update_capacity: increment = 1 if enter else -1
RestIncrement(action) == IF action = "enter" THEN 1 ELSE -1

\* the delta section 6 of the design gives an event: +count / -count
EventDelta(action, count) == IF action = "enter" THEN count ELSE -count

\* what section 7 of the design makes of an event body: malformed when
\* area_id is missing, the action given is not enter or exit (whatever its
\* case), or the count given is outside 1..10; an absent action is its own
\* kind
EventForm(body) ==
    IF body.action = NoField THEN "no_action"
    ELSE IF \/ body.area_id = NoField
            \/ Lower(body.action) \notin {"enter", "exit"}
            \/ (body.count # NoCount /\ (body.count < 1 \/ body.count > 10))
         THEN "malformed"
         ELSE "valid"

\* faulty variant: validate_current_count raises on a count above max_capacity
AreaCapacityOkCapped(item) ==
    item.meta /\ item.current_count >= 0 /\ item.current_count <= item.max_capacity

\* AreaCapacity(area_id=item['area_id'], name=item['name'], ...) raises
\* KeyError on an item without the registry attributes, and a validation
\* error on current_count < 0 (Field(ge=0)).  validate_current_count passes
\* a count above max_capacity.
AreaCapacityOk(item) == item.meta /\ item.current_count >= 0

\* ------------------------------------------------------------- state
VARIABLES
    table,      \* area id -> stored item
    db_table,   \* whether DynamoDBManager.table was initialised (None if not)
    now,        \* the clock datetime.utcnow() reads
    inflight,   \* the bag of handlers that have a storage call left to make
    last,       \* the event answered last, with its response
    calls,      \* events handled so far
    hist        \* area id -> the operations invoked on it, in invocation order

vars == <<table, db_table, now, inflight, last, calls, hist>>

\* A handler between its two storage calls.  at: the call it has left;
\* area_id, item_meta: its key and whether the item its update_item returned
\* carries the registry attributes.  The rest is history kept for the
\* properties: path, the entry point; delta, the signed count the event
\* carries (+count for enter, -count for exit; for a reset, the count
\* asked for); known, whether the area had a registry record when the
\* event arrived, and pre, the count stored then; faulted, whether one of
\* its storage calls raised; pre_seq, the update_count stored when the event
\* arrived; form, what the design's adapter contract makes of the event body;
\* was_open, the is_open stored when the event arrived; ts, the clock value
\* the handler read for its :timestamp.
NoCall == [at |-> "none", path |-> "none", area_id |-> NoField, delta |-> 0,
           item_meta |-> FALSE, known |-> FALSE, pre |-> 0, faulted |-> FALSE,
           pre_seq |-> 0, form |-> "valid", was_open |-> FALSE, ts |-> 0]
\* the response an event got: its HTTP status and, on 200, its new_count
\* (for a read, the current_count returned); areas, the entries of a list
\* response; health and database_connected, the fields of a HealthResponse
Answered(c, status, n) ==
    [call |-> c, status |-> status, new_count |-> n, areas |-> {},
     health |-> "none", database_connected |-> FALSE]

Init ==
    /\ table = [a \in AreaIds |->
                    IF a \in SeededAreas
                       THEN NewAreaItem(InitialMaxCapacity[a], TRUE, 0)
                       ELSE NoItem]
    /\ db_table \in BOOLEAN
    /\ now = 0
    /\ inflight = EmptyBag
    /\ last = Answered(NoCall, 0, 0)
    /\ calls = 0
    /\ hist = [a \in AreaIds |-> << >>]

NewCall(path, area, delta) ==
    [at |-> "none", path |-> path, area_id |-> area, delta |-> delta,
     item_meta |-> table[area].meta, known |-> table[area].meta,
     pre |-> IfNotExists(table[area]), faulted |-> FALSE,
     pre_seq |-> table[area].update_count, form |-> "valid",
     was_open |-> table[area].is_open, ts |-> now]
\* an event turned away before any storage call
Rejected(path) == [NoCall EXCEPT !.path = path]
\* the call of an event that came with this body
Formed(c, body) == [c EXCEPT !.form = EventForm(body)]
Faulted(c) == [c EXCEPT !.faulted = TRUE]

\* an event may arrive: at most k handlers run at a time
Arrives(k) == calls < MaxCalls /\ BagCardinality(inflight) < k

\* a handler ends: event c is answered with status and new_count
Finish(c, status, n) == last' = Answered([c EXCEPT !.at = "none"], status, n)

\* a handler goes on to its corrective write
Continue(c, at) ==
    /\ inflight' = inflight (+) SetToBag({[c EXCEPT !.at = at]})
    /\ UNCHANGED last

\* the handlers that stand at `at`
Standing(at) == {h \in BagToSet(inflight) : h.at = at}
\* faulty variant: the handler never returns
LeavesStays(h) == inflight' = inflight

\* the handler returns
Leaves(h) == inflight' = inflight (-) SetToBag({h})

\* --------------------------------------------------- Lambda updater
\* lambda_handler with a body that fails validation: create_error_response(400)
lambda_handler_rejects(k, body) ==
    /\ Arrives(k)
    /\ ~LambdaValid(body)
    /\ calls' = calls + 1
    /\ Finish(Formed(Rejected("lambda"), body), 400, 0)
    /\ UNCHANGED <<table, db_table, now, inflight>>

\* lambda_handler -> update_capacity up to and including the first update_item.
\* A result >= 0 is returned at once; a negative one leaves the corrective
\* write to do.
lambda_handler(k, body) ==
    /\ Arrives(k)
    /\ LambdaValid(body)
    /\ LET a == body.area_id
           action == LambdaAction(body)
           count == LambdaCount(body)
           increment == LambdaIncrement(action, count)
           updated_item == LambdaAddExpr(table[PK(a)], increment, now)
           c == Formed(NewCall("lambda", a, EventDelta(action, count)), body)
       IN /\ calls' = calls + 1
          /\ table' = [table EXCEPT ![PK(a)] = updated_item]
          /\ IF updated_item.current_count < 0
                THEN Continue(c, "lambda_clamp")
                ELSE Finish(c, 200, updated_item.current_count) /\ UNCHANGED inflight
    /\ UNCHANGED <<db_table, now>>

\* the first update_item raises: logged, re-raised, answered with 500
lambda_handler_raises(k, body) ==
    /\ Arrives(k)
    /\ LambdaValid(body)
    /\ LET action == LambdaAction(body)
           count == LambdaCount(body)
           c == Formed(NewCall("lambda", body.area_id, EventDelta(action, count)), body)
       IN Finish(Faulted(c), 500, 0)
    /\ calls' = calls + 1
    /\ UNCHANGED <<table, db_table, now, inflight>>

\* update_capacity, "if updated_item['current_count'] < 0": the second update_item
lambda_clamp(h) ==
    /\ h \in Standing("lambda_clamp")
    /\ LET a == h.area_id
           updated_item == LambdaZeroExpr(table[PK(a)])
       IN /\ table' = [table EXCEPT ![PK(a)] = updated_item]
          /\ Finish(h, 200, updated_item.current_count)
    /\ Leaves(h)
    /\ UNCHANGED <<db_table, now, calls>>

\* the second update_item raises
lambda_clamp_raises(h) ==
    /\ h \in Standing("lambda_clamp")
    /\ Finish(Faulted(h), 500, 0)
    /\ Leaves(h)
    /\ UNCHANGED <<table, db_table, now, calls>>

\* ------------------------------------------------------ REST service
\* POST /api/update with a body UpdateCapacityRequest rejects: 422
rest_update_rejects(k, body) ==
    /\ Arrives(k)
    /\ ~RestValid(body)
    /\ calls' = calls + 1
    /\ Finish(Formed(Rejected("rest"), body), 422, 0)
    /\ UNCHANGED <<table, db_table, now, inflight>>

\* POST /api/update with no table handle: update_capacity returns None, which
\* the endpoint answers with 404
rest_update_no_table(k, body) ==
    /\ Arrives(k)
    /\ RestValid(body)
    /\ ~db_table
    /\ calls' = calls + 1
    /\ Finish(Formed(NewCall("rest", body.area_id,
                             EventDelta(Lower(body.action), RestCount(body))),
                     body), 404, 0)
    /\ UNCHANGED <<table, db_table, now, inflight>>

\* POST /api/update -> DynamoDBManager.update_capacity up to and including its
\* update_item.  The item that comes back is never empty (ALL_NEW of an
\* upsert), so "not found" is not taken; building AreaCapacity from an item
\* without the registry attributes raises, which the endpoint answers with 500.
rest_update_capacity(k, body) ==
    /\ Arrives(k)
    /\ RestValid(body)
    /\ db_table
    /\ LET a == body.area_id
           action == Lower(body.action)
           increment == RestIncrement(action)
           item == RestAddExpr(table[PK(a)], increment, now)
           c == Formed(NewCall("rest", a, EventDelta(action, RestCount(body))), body)
       IN /\ calls' = calls + 1
          /\ table' = [table EXCEPT ![PK(a)] = item]
          /\ IF item.current_count < 0
                THEN Continue(c, "rest_clamp")
                ELSE /\ IF AreaCapacityOk(item)
                           THEN Finish(c, 200, item.current_count)
                           ELSE Finish(c, 500, 0)
                     /\ UNCHANGED inflight
    /\ UNCHANGED <<db_table, now>>

\* its update_item raises: 500
rest_update_capacity_raises(k, body) ==
    /\ Arrives(k)
    /\ RestValid(body)
    /\ db_table
    /\ LET action == Lower(body.action)
           c == Formed(NewCall("rest", body.area_id,
                               EventDelta(action, RestCount(body))), body)
       IN Finish(Faulted(c), 500, 0)
    /\ calls' = calls + 1
    /\ UNCHANGED <<table, db_table, now, inflight>>

\* update_capacity, "if item['current_count'] < 0": await set_capacity(area_id, 0),
\* then item['current_count'] = 0 on the item the first write returned.
\* set_capacity builds an AreaCapacity from what it wrote and update_capacity
\* one from its own item; either raises on missing registry attributes.
rest_clamp(h) ==
    /\ h \in Standing("rest_clamp")
    /\ LET a == h.area_id
           written == SetCountExpr(table[PK(a)], 0, now)
       IN /\ table' = [table EXCEPT ![PK(a)] = written]
          /\ IF AreaCapacityOk(written) /\ h.item_meta
                THEN Finish(h, 200, 0)
                ELSE Finish(h, 500, 0)
    /\ Leaves(h)
    /\ UNCHANGED <<db_table, now, calls>>

\* the update_item of that set_capacity raises
rest_clamp_raises(h) ==
    /\ h \in Standing("rest_clamp")
    /\ Finish(Faulted(h), 500, 0)
    /\ Leaves(h)
    /\ UNCHANGED <<table, db_table, now, calls>>

\* POST /api/reset/{area_id} with no table handle: set_capacity returns None: 404
reset_no_table(k, a, count) ==
    /\ Arrives(k)
    /\ ~db_table
    /\ calls' = calls + 1
    /\ Finish(NewCall("reset", a, count), 404, 0)
    /\ UNCHANGED <<table, db_table, now, inflight>>

\* POST /api/reset/{area_id}?count= -> set_capacity: one update_item.  The
\* endpoint reports the count it was asked for.
reset_area_capacity(k, a, count) ==
    /\ Arrives(k)
    /\ db_table
    /\ LET written == SetCountExpr(table[PK(a)], count, now)
           c == NewCall("reset", a, count)
       IN /\ calls' = calls + 1
          /\ table' = [table EXCEPT ![PK(a)] = written]
          /\ IF AreaCapacityOk(written)
                THEN Finish(c, 200, count)
                ELSE Finish(c, 500, 0)
    /\ UNCHANGED <<db_table, now, inflight>>

reset_area_capacity_raises(k, a, count) ==
    /\ Arrives(k)
    /\ db_table
    /\ calls' = calls + 1
    /\ Finish(Faulted(NewCall("reset", a, count)), 500, 0)
    /\ UNCHANGED <<table, db_table, now, inflight>>

\* ------------------------------------------------- the clock in view
\* The handlers above read the clock and write in one step, which is all
\* there is to see while the clock stands still.  Each handler in fact
\* evaluates datetime.utcnow().isoformat() while it builds
\* ExpressionAttributeValues, and the store commits the update_item later:
\* below, the two moments are two steps, and the clock may advance and
\* other handlers may write in between.  Only the order of the clock
\* readings matters: one advance for each event that has arrived tells all
\* of them apart.
Tick ==
    /\ now < calls
    /\ now' = now + 1
    /\ UNCHANGED <<table, db_table, inflight, last, calls, hist>>

\* a handler leaves one storage call for the next
Moves(h, c, at) ==
    inflight' = (inflight (-) SetToBag({h})) (+) SetToBag({[c EXCEPT !.at = at]})

\* capacity_updater.update_capacity up to its ExpressionAttributeValues
lambda_reads_clock(k, body) ==
    /\ Arrives(k)
    /\ LambdaValid(body)
    /\ calls' = calls + 1
    /\ Continue(NewCall("lambda", body.area_id,
                        LambdaIncrement(LambdaAction(body), LambdaCount(body))),
                "lambda_add")
    /\ UNCHANGED <<table, db_table, now>>

\* its first update_item commits with the :timestamp read before
lambda_add(h) ==
    /\ h \in Standing("lambda_add")
    /\ LET a == h.area_id
           updated_item == LambdaAddExpr(table[PK(a)], h.delta, h.ts)
       IN /\ table' = [table EXCEPT ![PK(a)] = updated_item]
          /\ IF updated_item.current_count < 0
                THEN Moves(h, h, "lambda_clamp") /\ UNCHANGED last
                ELSE Finish(h, 200, updated_item.current_count) /\ Leaves(h)
    /\ UNCHANGED <<db_table, now, calls>>

\* DynamoDBManager.update_capacity up to its ExpressionAttributeValues
rest_reads_clock(k, body) ==
    /\ Arrives(k)
    /\ RestValid(body)
    /\ db_table
    /\ calls' = calls + 1
    /\ Continue(NewCall("rest", body.area_id, RestIncrement(Lower(body.action))),
                "rest_add")
    /\ UNCHANGED <<table, db_table, now>>

\* its update_item commits; on a negative result set_capacity(area_id, 0) is
\* called, which reads the clock anew for its own :timestamp
rest_add(h) ==
    /\ h \in Standing("rest_add")
    /\ LET a == h.area_id
           item == RestAddExpr(table[PK(a)], h.delta, h.ts)
       IN /\ table' = [table EXCEPT ![PK(a)] = item]
          /\ IF item.current_count < 0
                THEN Moves(h, [h EXCEPT !.ts = now], "rest_zero") /\ UNCHANGED last
                ELSE /\ IF AreaCapacityOk(item)
                           THEN Finish(h, 200, item.current_count)
                           ELSE Finish(h, 500, 0)
                     /\ Leaves(h)
    /\ UNCHANGED <<db_table, now, calls>>

\* the update_item of that set_capacity commits
rest_zero(h) ==
    /\ h \in Standing("rest_zero")
    /\ LET a == h.area_id
           written == SetCountExpr(table[PK(a)], 0, h.ts)
       IN /\ table' = [table EXCEPT ![PK(a)] = written]
          /\ IF AreaCapacityOk(written) /\ h.item_meta
                THEN Finish(h, 200, 0)
                ELSE Finish(h, 500, 0)
    /\ Leaves(h)
    /\ UNCHANGED <<db_table, now, calls>>

\* POST /api/reset -> set_capacity up to its ExpressionAttributeValues
reset_reads_clock(k, a, count) ==
    /\ Arrives(k)
    /\ db_table
    /\ calls' = calls + 1
    /\ Continue(NewCall("reset", a, count), "set_write")
    /\ UNCHANGED <<table, db_table, now>>

\* its update_item commits
set_write(h) ==
    /\ h \in Standing("set_write")
    /\ LET a == h.area_id
           written == SetCountExpr(table[PK(a)], h.delta, h.ts)
       IN /\ table' = [table EXCEPT ![PK(a)] = written]
          /\ IF AreaCapacityOk(written)
                THEN Finish(h, 200, h.delta)
                ELSE Finish(h, 500, 0)
    /\ Leaves(h)
    /\ UNCHANGED <<db_table, now, calls>>

\* ------------------------------------------------------ area registry
\* DynamoDBManager.create_area: put_item of a complete item with
\* current_count 0, with no ConditionExpression, so it replaces whatever is
\* stored under the key.  The method has no endpoint: 200 stands for the
\* AreaCapacity it returns, 500 for the exception it re-raises.
create_area(k, a, max_capacity, is_open) ==
    /\ Arrives(k)
    /\ db_table
    /\ calls' = calls + 1
    /\ table' = [table EXCEPT ![PK(a)] = NewAreaItem(max_capacity, is_open, now)]
    /\ Finish(NewCall("create", a, 0), 200, 0)
    /\ UNCHANGED <<db_table, now, inflight>>

\* "if not self.table: raise Exception(...)"
create_area_no_table(k, a) ==
    /\ Arrives(k)
    /\ ~db_table
    /\ calls' = calls + 1
    /\ Finish(Faulted(NewCall("create", a, 0)), 500, 0)
    /\ UNCHANGED <<table, db_table, now, inflight>>

\* its put_item raises
create_area_raises(k, a) ==
    /\ Arrives(k)
    /\ db_table
    /\ calls' = calls + 1
    /\ Finish(Faulted(NewCall("create", a, 0)), 500, 0)
    /\ UNCHANGED <<table, db_table, now, inflight>>

\* ----------------------------------------------------------- seeding
\* init_database.seed_areas, one turn of its loop over INITIAL_AREAS, on the
\* script's own table handle.  The turn is two storage calls: the existence
\* check get_item, then update_item (the item exists) or put_item (it does
\* not).  200 stands for the turn completing, 500 for an exception that
\* ends the script.
seed_check(k, a) ==
    /\ Arrives(k)
    /\ calls' = calls + 1
    /\ Continue(NewCall("seed", a, 0),
                IF table[PK(a)].present THEN "seed_update" ELSE "seed_put")
    /\ UNCHANGED <<table, db_table, now>>

\* the get_item raises ClientError: "except ClientError: pass", and the turn
\* goes on to the put_item
seed_check_raises(k, a) ==
    /\ Arrives(k)
    /\ calls' = calls + 1
    /\ Continue(Faulted(NewCall("seed", a, 0)), "seed_put")
    /\ UNCHANGED <<table, db_table, now>>

\* "SET max_capacity = :max_cap, #name = :name"
SeedUpdateExpr(item, max_capacity) ==
    [item EXCEPT !.present = TRUE, !.max_capacity = max_capacity]

seed_update(h) ==
    /\ h \in Standing("seed_update")
    /\ LET a == h.area_id
       IN table' = [table EXCEPT
                       ![PK(a)] = SeedUpdateExpr(table[PK(a)], InitialMaxCapacity[a])]
    /\ Finish(h, 200, 0)
    /\ Leaves(h)
    /\ UNCHANGED <<db_table, now, calls>>

\* put_item of a complete item with current_count 0
seed_put(h) ==
    /\ h \in Standing("seed_put")
    /\ LET a == h.area_id
       IN table' = [table EXCEPT
                       ![PK(a)] = NewAreaItem(InitialMaxCapacity[a], TRUE, now)]
    /\ Finish(h, 200, 0)
    /\ Leaves(h)
    /\ UNCHANGED <<db_table, now, calls>>

\* the update_item raises ClientError inside the same try: "pass" again,
\* and the turn goes on to the put_item
seed_update_raises(h) ==
    /\ h \in Standing("seed_update")
    /\ inflight' = (inflight (-) SetToBag({h}))
                      (+) SetToBag({[Faulted(h) EXCEPT !.at = "seed_put"]})
    /\ UNCHANGED <<table, db_table, now, calls, last>>

\* the put_item raises: the exception leaves seed_areas and the script ends
seed_put_raises(h) ==
    /\ h \in Standing("seed_put")
    /\ Finish(Faulted(h), 500, 0)
    /\ Leaves(h)
    /\ UNCHANGED <<table, db_table, now, calls>>

\* ------------------------------------------------------------- reads
\* a read may be issued while fewer than k handlers stand between their
\* storage calls; reads are not counted in calls, they change no stored state
Idle(k) == BagCardinality(inflight) < k

\* GET /api/capacity/{area_id} with no table handle: get_area returns None,
\* which the endpoint answers with 404
get_area_no_table(k, a) ==
    /\ Idle(k)
    /\ ~db_table
    /\ Finish(NewCall("read", a, 0), 404, 0)
    /\ UNCHANGED <<table, db_table, now, inflight, calls>>

\* GET /api/capacity/{area_id} -> get_area: one get_item.  No item: None, 404.
\* An item that AreaCapacity rejects (registry attributes missing, or
\* current_count < 0) raises, which the endpoint answers with 500.
get_area(k, a) ==
    /\ Idle(k)
    /\ db_table
    /\ LET item == table[PK(a)]
           c == NewCall("read", a, 0)
       IN IF ~item.present
             THEN Finish(c, 404, 0)
             ELSE IF item.has_count /\ AreaCapacityOk(item)
                     THEN Finish(c, 200, item.current_count)
                     ELSE Finish(c, 500, 0)
    /\ UNCHANGED <<table, db_table, now, inflight, calls>>

\* its get_item raises: 500
get_area_raises(k, a) ==
    /\ Idle(k)
    /\ db_table
    /\ Finish(Faulted(NewCall("read", a, 0)), 500, 0)
    /\ UNCHANGED <<table, db_table, now, inflight, calls>>

\* capacity_updater.get_current_capacity: one get_item on the Lambda's own
\* table handle; it returns the stored item as it is, or {} when there is
\* none.  200 stands for a returned item, 204 for {}.
get_current_capacity(k, a) ==
    /\ Idle(k)
    /\ LET item == table[PK(a)]
           c == NewCall("lambda_read", a, 0)
       IN IF item.present
             THEN Finish(c, 200, item.current_count)
             ELSE Finish(c, 204, 0)
    /\ UNCHANGED <<table, db_table, now, inflight, calls>>

\* its get_item raises: logged, {} returned
get_current_capacity_raises(k, a) ==
    /\ Idle(k)
    /\ Finish(Faulted(NewCall("lambda_read", a, 0)), 204, 0)
    /\ UNCHANGED <<table, db_table, now, inflight, calls>>

\* one entry of a list response
Entry(a, count) == [area_id |-> a, current_count |-> count]
\* main.get_mock_capacity_data
MockCapacityData ==
    {Entry("weight-room", 45), Entry("cardio", 32), Entry("track", 18),
     Entry("pool", 12), Entry("basketball", 24), Entry("climbing", 8)}
\* get_all_areas, the loop over the scanned items: an item AreaCapacity
\* rejects is logged and skipped
ParsedAreas(t) ==
    {Entry(a, t[a].current_count) :
        a \in {b \in DOMAIN t : t[b].present /\ t[b].has_count /\ AreaCapacityOk(t[b])}}
ListCall == [NoCall EXCEPT !.path = "read_all"]
FinishList(c, status, entries) ==
    last' = [Answered(c, status, 0) EXCEPT !.areas = entries]

\* GET /api/capacity -> get_all_areas: one scan; "if not areas", the mock data
get_all_capacity(k) ==
    /\ Idle(k)
    /\ db_table
    /\ LET areas == ParsedAreas(table)
       IN FinishList(ListCall, 200, IF areas = {} THEN MockCapacityData ELSE areas)
    /\ UNCHANGED <<table, db_table, now, inflight, calls>>

\* with no table handle get_all_areas returns []: the mock data
get_all_capacity_no_table(k) ==
    /\ Idle(k)
    /\ ~db_table
    /\ FinishList(ListCall, 200, MockCapacityData)
    /\ UNCHANGED <<table, db_table, now, inflight, calls>>

\* the scan raises: 500
get_all_capacity_raises(k) ==
    /\ Idle(k)
    /\ db_table
    /\ FinishList(Faulted(ListCall), 500, {})
    /\ UNCHANGED <<table, db_table, now, inflight, calls>>

\* ------------------------------------------------------ health check
\* faulty variant: the handle alone decides, the probe is not looked at
verify_connection_handle_only(handle, probe) == handle

\* DynamoDBManager.verify_connection: False without a table handle; else
\* the probe self.table.table_status, True when it returns and False when
\* it raises
verify_connection(handle, probe) == handle /\ probe

HealthCall == [NoCall EXCEPT !.path = "health"]
\* HealthResponse(status="healthy" if db_healthy else "degraded", ...,
\* database_connected=db_healthy)
HealthResponse(c, db_healthy) ==
    [Answered(c, 200, 0) EXCEPT
        !.health = IF db_healthy THEN "healthy" ELSE "degraded",
        !.database_connected = db_healthy]

\* GET /api/health with a table handle: the probe returns (probe) or
\* raises.  verify_connection catches every Exception itself, so the
\* "unhealthy" branch of health_check is never taken.
health_check(k, probe) ==
    /\ Idle(k)
    /\ db_table
    /\ last' = HealthResponse(IF probe THEN HealthCall ELSE Faulted(HealthCall),
                              verify_connection(db_table, probe))
    /\ UNCHANGED <<table, db_table, now, inflight, calls>>

\* GET /api/health with no table handle: no probe is made
health_check_no_table(k) ==
    /\ Idle(k)
    /\ ~db_table
    /\ last' = HealthResponse(HealthCall, verify_connection(db_table, TRUE))
    /\ UNCHANGED <<table, db_table, now, inflight, calls>>

\* ------------------------------------------- the update paths, run alone
\* capacity_updater.update_capacity(area_id, action, count) run to its
\* return with no other writer: the item it leaves stored
LambdaRun(item, action, count, ts) ==
    LET updated_item == LambdaAddExpr(item, LambdaIncrement(action, count), ts)
    IN IF updated_item.current_count < 0
          THEN LambdaZeroExpr(updated_item)
          ELSE updated_item

\* DynamoDBManager.update_capacity(area_id, action) run to its return with
\* no other writer: the item it leaves stored
RestRun(item, action, ts) ==
    LET written == RestAddExpr(item, RestIncrement(action), ts)
    IN IF written.current_count < 0
          THEN SetCountExpr(written, 0, ts)
          ELSE written

\* ------------------------------------------------------- behaviours
ApplyOp(inc) == [kind |-> "apply", arg |-> inc]
SetOp(count) == [kind |-> "set", arg |-> count]
CreateOp == [kind |-> "create", arg |-> 0]
Record(track, a, op) ==
    hist' = IF track THEN [hist EXCEPT ![a] = Append(@, op)] ELSE hist

\* The steps of at most k concurrent handlers on events with bodies B and
\* resets R; the operations invoked are recorded in hist when track is set.
LambdaEvent(k, B, track) ==
    \E body \in B :
        /\ lambda_handler(k, body)
        /\ Record(track, body.area_id,
                  ApplyOp(LambdaIncrement(LambdaAction(body), LambdaCount(body))))
LambdaRejected(k, B) ==
    \E body \in B : lambda_handler_rejects(k, body) /\ UNCHANGED hist
LambdaClamp ==
    \E h \in BagToSet(inflight) : lambda_clamp(h) /\ UNCHANGED hist
RestEvent(k, B, track) ==
    \E body \in B :
        /\ rest_update_capacity(k, body)
        /\ Record(track, body.area_id, ApplyOp(RestIncrement(Lower(body.action))))
RestRejected(k, B) ==
    \E body \in B : rest_update_rejects(k, body) /\ UNCHANGED hist
RestClamp ==
    \E h \in BagToSet(inflight) : rest_clamp(h) /\ UNCHANGED hist
Reset(k, R, track) ==
    \E r \in R :
        /\ reset_area_capacity(k, r[1], r[2])
        /\ Record(track, r[1], SetOp(r[2]))
RestNoTable(k, B) ==
    \E body \in B : rest_update_no_table(k, body) /\ UNCHANGED hist
ResetNoTable(k, R) ==
    \E r \in R : reset_no_table(k, r[1], r[2]) /\ UNCHANGED hist
LambdaEventRaises(k, B) ==
    \E body \in B : lambda_handler_raises(k, body) /\ UNCHANGED hist
LambdaClampRaises ==
    \E h \in BagToSet(inflight) : lambda_clamp_raises(h) /\ UNCHANGED hist
RestEventRaises(k, B) ==
    \E body \in B : rest_update_capacity_raises(k, body) /\ UNCHANGED hist
RestClampRaises ==
    \E h \in BagToSet(inflight) : rest_clamp_raises(h) /\ UNCHANGED hist
ResetRaises(k, R) ==
    \E r \in R : reset_area_capacity_raises(k, r[1], r[2]) /\ UNCHANGED hist
CreateArea(k, A, track) ==
    \E a \in A, max_capacity \in CreateCapacities, is_open \in BOOLEAN :
        create_area(k, a, max_capacity, is_open) /\ Record(track, a, CreateOp)
CreateAreaNoTable(k, A) ==
    \E a \in A : create_area_no_table(k, a) /\ UNCHANGED hist
CreateAreaRaises(k, A) ==
    \E a \in A : create_area_raises(k, a) /\ UNCHANGED hist
GetArea(k, A) ==
    \E a \in A : get_area(k, a) /\ UNCHANGED hist
GetAreaNoTable(k, A) ==
    \E a \in A : get_area_no_table(k, a) /\ UNCHANGED hist
GetAreaRaises(k, A) ==
    \E a \in A : get_area_raises(k, a) /\ UNCHANGED hist
GetCurrentCapacity(k, A) ==
    \E a \in A : get_current_capacity(k, a) /\ UNCHANGED hist
GetCurrentCapacityRaises(k, A) ==
    \E a \in A : get_current_capacity_raises(k, a) /\ UNCHANGED hist
GetAllCapacity(k) == get_all_capacity(k) /\ UNCHANGED hist
GetAllCapacityNoTable(k) == get_all_capacity_no_table(k) /\ UNCHANGED hist
GetAllCapacityRaises(k) == get_all_capacity_raises(k) /\ UNCHANGED hist
SeedCheck(k, A) ==
    \E a \in A : seed_check(k, a) /\ UNCHANGED hist
SeedCheckRaises(k, A) ==
    \E a \in A : seed_check_raises(k, a) /\ UNCHANGED hist
SeedUpdate ==
    \E h \in BagToSet(inflight) : seed_update(h) /\ UNCHANGED hist
SeedPut ==
    \E h \in BagToSet(inflight) : seed_put(h) /\ UNCHANGED hist
SeedUpdateRaises ==
    \E h \in BagToSet(inflight) : seed_update_raises(h) /\ UNCHANGED hist
SeedPutRaises ==
    \E h \in BagToSet(inflight) : seed_put_raises(h) /\ UNCHANGED hist
LambdaReadsClock(k, B) ==
    \E body \in B : lambda_reads_clock(k, body) /\ UNCHANGED hist
LambdaAdd ==
    \E h \in BagToSet(inflight) : lambda_add(h) /\ UNCHANGED hist
RestReadsClock(k, B) ==
    \E body \in B : rest_reads_clock(k, body) /\ UNCHANGED hist
RestAdd ==
    \E h \in BagToSet(inflight) : rest_add(h) /\ UNCHANGED hist
RestZero ==
    \E h \in BagToSet(inflight) : rest_zero(h) /\ UNCHANGED hist
ResetReadsClock(k, R) ==
    \E r \in R : reset_reads_clock(k, r[1], r[2]) /\ UNCHANGED hist
SetWrite ==
    \E h \in BagToSet(inflight) : set_write(h) /\ UNCHANGED hist
HealthCheck(k) ==
    \E probe \in BOOLEAN : health_check(k, probe) /\ UNCHANGED hist
HealthCheckNoTable(k) ==
    health_check_no_table(k) /\ UNCHANGED hist

\* Any number of concurrent handlers, every event, storage calls that may
\* raise.  The handlers are Lambda instances and REST workers, separate
\* processes that share nothing but the table, so their storage calls
\* interleave freely.
Next ==
    \/ LambdaEvent(MaxCalls, Bodies, FALSE)
    \/ LambdaRejected(MaxCalls, Bodies)
    \/ LambdaClamp
    \/ RestEvent(MaxCalls, Bodies, FALSE)
    \/ RestRejected(MaxCalls, Bodies)
    \/ RestClamp
    \/ Reset(MaxCalls, Resets, FALSE)
    \/ RestNoTable(MaxCalls, Bodies)
    \/ ResetNoTable(MaxCalls, Resets)
    \/ LambdaEventRaises(MaxCalls, Bodies)
    \/ LambdaClampRaises
    \/ RestEventRaises(MaxCalls, Bodies)
    \/ RestClampRaises
    \/ ResetRaises(MaxCalls, Resets)

Spec == Init /\ [][Next]_vars

\* One handler at a time: each event is answered before the next arrives.
NextSeq ==
    \/ LambdaEvent(1, Bodies, FALSE)
    \/ LambdaRejected(1, Bodies)
    \/ LambdaClamp
    \/ RestEvent(1, Bodies, FALSE)
    \/ RestRejected(1, Bodies)
    \/ RestClamp
    \/ Reset(1, Resets, FALSE)
    \/ RestNoTable(1, Bodies)
    \/ ResetNoTable(1, Resets)
    \/ LambdaEventRaises(1, Bodies)
    \/ LambdaClampRaises
    \/ RestEventRaises(1, Bodies)
    \/ RestClampRaises
    \/ ResetRaises(1, Resets)

SpecSeq == Init /\ [][NextSeq]_vars

\* Concurrent well-formed events and resets on one seeded area, storage
\* available, with the operations invoked recorded in hist.
HistBodies == {b \in WellFormed : b.area_id = "weight-room"}
HistResets == {"weight-room"} \X ResetCounts
InitHist == Init /\ db_table
NextHist ==
    \/ LambdaEvent(MaxCalls, HistBodies, TRUE)
    \/ LambdaClamp
    \/ RestEvent(MaxCalls, HistBodies, TRUE)
    \/ RestClamp
    \/ Reset(MaxCalls, HistResets, TRUE)

SpecHist == InitHist /\ [][NextHist]_vars

\* One handler at a time, with the registry's create_area and the reads of
\* GET /api/capacity/{area_id} between the events, and the operations that
\* reached the store recorded in hist.
QueryBodies == {Event("weight-room", "enter", 5), Event("weight-room", "exit", 1),
                Event("nonexistent", "enter", 1)}
QueryResets == EventAreas \X {2, -4}
NextQuery ==
    \/ LambdaEvent(1, QueryBodies, TRUE)
    \/ LambdaClamp
    \/ RestEvent(1, QueryBodies, TRUE)
    \/ RestClamp
    \/ Reset(1, QueryResets, TRUE)
    \/ RestNoTable(1, QueryBodies)
    \/ ResetNoTable(1, QueryResets)
    \/ CreateArea(1, EventAreas, TRUE)
    \/ CreateAreaNoTable(1, EventAreas)
    \/ CreateAreaRaises(1, EventAreas)
    \/ GetArea(1, EventAreas)
    \/ GetAreaNoTable(1, EventAreas)
    \/ GetAreaRaises(1, EventAreas)

SpecQuery == Init /\ [][NextQuery]_vars

\* Concurrent events on two registered areas, with reads of every kind
\* issued at any moment, the moments between an event's two storage calls
\* included.
SnapshotBodies == {Event("weight-room", "exit", 1), Event("weight-room", "enter", 10),
                   Event("pool", "exit", 1)}
NextSnapshot ==
    \/ LambdaEvent(MaxCalls, SnapshotBodies, FALSE)
    \/ LambdaClamp
    \/ RestEvent(MaxCalls, SnapshotBodies, FALSE)
    \/ RestClamp
    \/ GetArea(MaxCalls + 1, SeededAreas)
    \/ GetAreaNoTable(MaxCalls + 1, SeededAreas)
    \/ GetAreaRaises(MaxCalls + 1, SeededAreas)
    \/ GetCurrentCapacity(MaxCalls + 1, SeededAreas)
    \/ GetCurrentCapacityRaises(MaxCalls + 1, SeededAreas)
    \/ GetAllCapacity(MaxCalls + 1)
    \/ GetAllCapacityNoTable(MaxCalls + 1)
    \/ GetAllCapacityRaises(MaxCalls + 1)

SpecSnapshot == Init /\ [][NextSnapshot]_vars

\* Concurrent events and resets on two registered areas, storage available.
AreaBodies == [area_id : SeededAreas, action : {"enter", "exit"}, count : {1}]
AreaResets == SeededAreas \X {3}
NextAreas ==
    \/ LambdaEvent(MaxCalls, AreaBodies, FALSE)
    \/ LambdaClamp
    \/ RestEvent(MaxCalls, AreaBodies, FALSE)
    \/ RestClamp
    \/ Reset(MaxCalls, AreaResets, FALSE)

SpecAreas == InitHist /\ [][NextAreas]_vars

\* The same under fair scheduling: a handler is a process of its own (a
\* Lambda invocation, a request task) that takes no lock and waits for no
\* other handler, so one that has its corrective write left to do does it.
\* Storage is available, so that write does not raise.  New events need not
\* arrive.
Fairness == WF_vars(LambdaClamp) /\ WF_vars(RestClamp)

SpecLive == InitHist /\ [][NextAreas]_vars /\ Fairness

\* Seeding run against a table in use: weight-room has its record, pool is
\* an area of INITIAL_AREAS that is not stored yet.  The seeding turns
\* interleave with Lambda events and create_area calls.
SeedBodies ==
    {Event("weight-room", "enter", 1), Event("weight-room", "exit", 1),
     Event("pool", "enter", 1)}
InitSeed ==
    /\ table = [a \in AreaIds |->
                    IF a = "weight-room"
                       THEN NewAreaItem(InitialMaxCapacity[a], TRUE, 0)
                       ELSE NoItem]
    /\ db_table = TRUE
    /\ now = 0
    /\ inflight = EmptyBag
    /\ last = Answered(NoCall, 0, 0)
    /\ calls = 0
    /\ hist = [a \in AreaIds |-> << >>]
NextSeed ==
    \/ LambdaEvent(MaxCalls, SeedBodies, FALSE)
    \/ LambdaClamp
    \/ CreateArea(MaxCalls, {"pool"}, FALSE)
    \/ SeedCheck(MaxCalls, SeededAreas)
    \/ SeedCheckRaises(MaxCalls, SeededAreas)
    \/ SeedUpdate
    \/ SeedPut
    \/ SeedUpdateRaises
    \/ SeedPutRaises

SpecSeed == InitSeed /\ [][NextSeed]_vars

\* A table whose weight-room item has the registry attributes and no
\* current_count attribute: the item if_not_exists(current_count, :zero) is
\* written for.  No put_item of this repository writes such an item (seeding
\* and create_area store current_count 0); it is table content written by
\* another writer of the shared table.  Concurrent events on that area, storage
\* available, operations recorded in hist.
LazyItem(max_capacity, ts) ==
    [NewAreaItem(max_capacity, TRUE, ts) EXCEPT !.has_count = FALSE]
LazyBodies ==
    {Event("weight-room", "enter", 1), Event("weight-room", "enter", 2),
     Event("weight-room", "exit", 1)}
InitLazy ==
    /\ table = [a \in AreaIds |->
                    IF a = "weight-room" THEN LazyItem(InitialMaxCapacity[a], 0)
                    ELSE IF a \in SeededAreas
                            THEN NewAreaItem(InitialMaxCapacity[a], TRUE, 0)
                            ELSE NoItem]
    /\ db_table = TRUE
    /\ now = 0
    /\ inflight = EmptyBag
    /\ last = Answered(NoCall, 0, 0)
    /\ calls = 0
    /\ hist = [a \in AreaIds |-> << >>]
NextLazy ==
    \/ LambdaEvent(MaxCalls, LazyBodies, TRUE)
    \/ LambdaClamp
    \/ RestEvent(MaxCalls, LazyBodies, TRUE)
    \/ RestClamp

SpecLazy == InitLazy /\ [][NextLazy]_vars

\* Single-person events and resets on one seeded area, two handlers at a
\* time, storage available, with the clock advancing between any two steps.
ClockBodies == {Event("weight-room", "enter", 1), Event("weight-room", "exit", 1)}
ClockResets == {"weight-room"} \X {2}
NextClock ==
    \/ Tick
    \/ LambdaReadsClock(2, ClockBodies)
    \/ LambdaAdd
    \/ LambdaClamp
    \/ RestReadsClock(2, ClockBodies)
    \/ RestAdd
    \/ RestZero
    \/ ResetReadsClock(2, ClockResets)
    \/ SetWrite

SpecClock == InitHist /\ [][NextClock]_vars

\* Health checks at any moment between and during concurrent Lambda events,
\* with and without a table handle in the REST service.
NextHealth ==
    \/ LambdaEvent(MaxCalls, SnapshotBodies, FALSE)
    \/ LambdaClamp
    \/ HealthCheck(MaxCalls + 1)
    \/ HealthCheckNoTable(MaxCalls + 1)

SpecHealth == Init /\ [][NextHealth]_vars

\* ---------------------------------------------------------- properties
Count(a) == table[a].current_count
\* no handler stands between its two storage calls on area a
Quiet(a) == \A h \in BagToSet(inflight) : h.area_id # a
\* the delta of the apply an answered event stands for: the Lambda updater
\* applies the event's signed count, DynamoDBManager.update_capacity(area_id,
\* action) one person
CoreDelta(c) == IF c.path = "lambda" THEN c.delta ELSE IF c.delta > 0 THEN 1 ELSE -1
IsApply(c) == c.path \in {"lambda", "rest"} /\ c.area_id # NoField
\* the event answered last has just been answered: no other is being
\* handled, so the table is as its last storage call left it
JustAnswered == last.status # 0 /\ inflight = EmptyBag

\* the design's serial meaning of one operation on a count
Serial(c, op) == IF op.kind = "apply" THEN Max(0, c + op.arg) ELSE Max(0, op.arg)
\* the counts that running the operations ops[i], i \in idx, one at a time
\* from count c can end with, over every order
RECURSIVE SerialOutcomes(_, _, _)
SerialOutcomes(c, ops, idx) ==
    IF idx = {} THEN {c}
    ELSE UNION {SerialOutcomes(Serial(c, ops[i]), ops, idx \ {i}) : i \in idx}
\* the operation invoked last on area a
LastOp(a) == hist[a][Len(hist[a])]
OnlyApplies(ops) == \A i \in DOMAIN ops : ops[i].kind = "apply"

\* C1: in every reachable state, the states between the storage writes of
\* in-flight applies included, every stored current_count is >= 0.
C1_NeverNegative == \A a \in AreaIds : Count(a) >= 0

\* C2: once every apply invoked on a seeded area has completed, and only
\* applies were invoked on it, its count is the outcome of running those
\* applies one at a time, each as max(0, count + delta), in some order.
C2_AppliesSerialize ==
    \A a \in SeededAreas :
        (OnlyApplies(hist[a]) /\ Quiet(a))
            => Count(a) \in SerialOutcomes(0, hist[a], DOMAIN hist[a])

\* C3: when the only operations invoked on a seeded area, whose count starts
\* at 0, are N apply(+1), its count is exactly N once all have completed.
C3_ConcurrentEnters ==
    \A a \in SeededAreas :
        ((\A i \in DOMAIN hist[a] : hist[a][i] = ApplyOp(1)) /\ Quiet(a))
            => Count(a) = Len(hist[a])
C3_Witness ==
    /\ hist["weight-room"] = [i \in 1..MaxCalls |-> ApplyOp(1)]
    /\ Count("weight-room") = MaxCalls

\* C4: when one set(v) and one apply(delta) were invoked on a seeded area
\* and both have completed, its count is max(0, max(0, v) + delta) (set
\* first) or max(0, v) (apply first), and nothing else.
C4_SetApplySerialize ==
    \A a \in SeededAreas :
        \A i, j \in DOMAIN hist[a] :
            (/\ Len(hist[a]) = 2
             /\ hist[a][i].kind = "set" /\ hist[a][j].kind = "apply"
             /\ Quiet(a))
                => Count(a) \in {Max(0, Max(0, hist[a][i].arg) + hist[a][j].arg),
                                 Max(0, hist[a][i].arg)}

\* C5: an apply on an area id that has no registry record is answered "not
\* found" (404) and leaves no record stored for that id.
C5_UnknownAreaApply ==
    (JustAnswered /\ IsApply(last.call) /\ ~last.call.known /\ ~last.call.faulted)
        => (last.status = 404 /\ ~table[last.call.area_id].present)

\* C6: a reset on an area id that has no registry record is answered "not
\* found" (404) and leaves no record stored for that id.
C6_UnknownAreaSet ==
    (JustAnswered /\ last.call.path = "reset" /\ ~last.call.known /\ ~last.call.faulted)
        => (last.status = 404 /\ ~table[last.call.area_id].present)

\* C7: a valid event {area_id, action, count} answered with success has
\* applied +count for enter and -count for exit to the area's count, on the
\* Lambda path and on POST /api/update alike.
C7_EventDeltaApplied ==
    (/\ JustAnswered /\ IsApply(last.call) /\ last.status = 200
     /\ last.call.known /\ last.call.pre >= 0)
        => Count(last.call.area_id) = Max(0, last.call.pre + last.call.delta)

\* C8: an apply one of whose storage calls raised has either committed its
\* whole effect max(0, count + delta) or left the count what it was.
C8_AllOrNothing ==
    (/\ JustAnswered /\ IsApply(last.call) /\ last.call.faulted
     /\ last.call.known /\ last.call.pre >= 0)
        => Count(last.call.area_id) \in
               {last.call.pre, Max(0, last.call.pre + CoreDelta(last.call))}

\* C9: an apply(delta) run to completion with nothing concurrent on a
\* registered area holding count c >= 0 leaves max(0, c + delta) stored and
\* returns it as new_count.
C9_ApplyResult ==
    (/\ JustAnswered /\ IsApply(last.call) /\ last.status = 200
     /\ last.call.known /\ last.call.pre >= 0)
        => /\ Count(last.call.area_id) = Max(0, last.call.pre + CoreDelta(last.call))
           /\ last.new_count = Count(last.call.area_id)
C9_Witness ==
    /\ JustAnswered /\ last.call.path = "lambda" /\ last.status = 200
    /\ last.call.pre = 3 /\ last.call.delta = -10
    /\ Count(last.call.area_id) = 0 /\ last.new_count = 0

\* C10: when each apply completes before the next event arrives, the count
\* of the area is >= 0 after every completed apply.
C10_NonNegativeAfterApply ==
    (JustAnswered /\ IsApply(last.call) /\ last.status = 200)
        => Count(last.call.area_id) >= 0
C10_Witness ==
    /\ JustAnswered /\ last.call.path = "rest" /\ last.status = 200
    /\ last.call.pre = 0 /\ last.call.delta < 0
    /\ Count(last.call.area_id) = 0

\* C11: every event answered with success that mutated a registered area
\* (an apply, clamped or not, or a reset), on the Lambda path and on the REST
\* paths, leaves the area's update counter strictly greater than it was
\* when the event arrived.
C11_SequenceIncreases ==
    (/\ JustAnswered /\ last.status = 200
     /\ last.call.path \in {"lambda", "rest", "reset"} /\ last.call.known)
        => table[last.call.area_id].update_count > last.call.pre_seq

\* C12: create_area on an id that already has a registry record fails and
\* leaves the stored current_count what it was; a create_area that succeeds
\* was on a new id and leaves it registered with current_count 0.
C12_CreateExisting ==
    (JustAnswered /\ last.call.path = "create")
        => /\ last.call.known
                => (last.status # 200 /\ Count(last.call.area_id) = last.call.pre)
           /\ last.status = 200
                => (table[last.call.area_id].meta /\ Count(last.call.area_id) = 0)

\* C13: when the operation that reached a registered area last is set(v)
\* and it has completed, the area's stored current_count is max(0, v) (2
\* after apply(+5) then set(2); 0 for a negative v), and a read of the area
\* issued then succeeds and returns that count.
C13_SetThenRead ==
    \A a \in AreaIds :
        (/\ inflight = EmptyBag /\ table[a].meta
         /\ Len(hist[a]) > 0 /\ LastOp(a).kind = "set")
            => /\ Count(a) = Max(0, LastOp(a).arg)
               /\ (/\ last.call.path = "read" /\ last.call.area_id = a
                   /\ ~last.call.faulted)
                      => (last.status = 200 /\ last.new_count = Max(0, LastOp(a).arg))
C13_Witness ==
    /\ hist["weight-room"] = <<ApplyOp(5), SetOp(2)>>
    /\ inflight = EmptyBag
    /\ last.call.path = "read" /\ last.call.area_id = "weight-room"
    /\ last.status = 200 /\ last.new_count = 2

\* C14: an event whose body is malformed (area_id missing, an action that is
\* not enter or exit, a count outside 1..10) is answered in the step that
\* receives it with a validation error (400 by the Lambda, 422 by POST
\* /api/update), that step leaves the whole table as it was, and no handler
\* ever goes on to a storage call for such an event.
C14_MalformedRejected ==
    [][/\ \A h \in BagToSet(inflight') : h.form # "malformed"
       /\ (calls' = calls + 1 /\ inflight' = inflight /\ last'.call.form = "malformed")
             => (last'.status \in {400, 422} /\ table' = table)]_vars
C14_Witness ==
    /\ last.call.form = "malformed" /\ last.call.path = "lambda" /\ last.status = 400
    /\ Count("weight-room") = 10 /\ calls = MaxCalls

\* C15: an event whose body has no action field is answered with a
\* validation error, on the Lambda and on POST /api/update alike, and the
\* count of the area it names is what it was.
C15_NoActionRejected ==
    (JustAnswered /\ last.call.form = "no_action")
        => /\ last.status \in {400, 422}
           /\ last.call.area_id \in AreaIds
                => Count(last.call.area_id) = last.call.pre

\* the step is a read of GET /api/capacity/{area_id} that was answered
ReadAnswered == last' # last /\ last'.call.path = "read"

\* C16: a read of an area id that has no registry record, whose storage call
\* did not raise, is answered "not found" (404) and leaves the whole table
\* as it was.
C16_UnknownAreaRead ==
    [][(ReadAnswered /\ ~last'.call.known /\ ~last'.call.faulted)
          => (last'.status = 404 /\ table' = table)]_vars

\* C17: a read that returns a count for a registered area returns the
\* post-state of a completed mutation or the initial 0, each of which is
\* max(0, ..): it never returns the negative count an apply stores before
\* its corrective write.
C17_SnapshotRead ==
    (last.call.path \in {"read", "lambda_read"} /\ last.status = 200 /\ last.call.known)
        => last.new_count >= 0

\* the step is a GET /api/capacity that was answered
ListAnswered == last' # last /\ last'.call.path = "read_all"

\* C18: a list read answered with success, whenever it is issued, has an
\* entry for every area that has a registry record at that moment.
C18_ListComplete ==
    [][(ListAnswered /\ last'.status = 200)
          => \A a \in AreaIds :
                table[a].meta => \E e \in last'.areas : e.area_id = a]_vars

\* persistence was unavailable to the call: one of its storage calls raised,
\* or it went through a DynamoDBManager whose table handle is None
Unavailable(c) ==
    c.faulted \/ (c.path \in {"rest", "reset", "read"} /\ ~db_table)

\* C19: an apply, a set or a read on a registered area to which persistence
\* was unavailable is answered with a storage failure (500), never with
\* "not found" (404).
C19_StorageFailureReported ==
    (/\ last.call.path \in {"lambda", "rest", "reset", "read"}
     /\ last.call.known /\ Unavailable(last.call))
        => last.status = 500

\* the step is one of a handler of an event on area b: the event arrives
\* and is answered at once, or its handler enters or leaves the handlers in
\* flight
Acting(b) ==
    \/ calls' # calls /\ inflight' = inflight /\ last'.call.area_id = b
    \/ \E h \in BagToSet(inflight) \cup BagToSet(inflight') :
          h.area_id = b /\ CopiesIn(h, inflight') # CopiesIn(h, inflight)

\* C20: every step of an apply or a set on an area leaves the item of every
\* other area, every field of it, as it was, however the steps of the
\* operations on different areas interleave.
C20_OtherAreasUnchanged ==
    [][\A b \in AreaIds : table'[b] # table[b] => Acting(b)]_vars
C20_Witness ==
    /\ Count("weight-room") = 3 /\ table["weight-room"].update_count = 1
    /\ Count("pool") < 0
    /\ \E h \in BagToSet(inflight) : h.area_id = "pool"

\* handlers of events on area a stand at `at`
InFlightOn(a, at) == \E h \in Standing(at) : h.area_id = a

\* C21: under fair scheduling with storage available, the handlers that
\* stand between their two storage calls on an area, on either path,
\* eventually have all completed, whatever else is in flight on that area
\* or on another; sets and applies that need no corrective write complete
\* in the step that invokes them.
C21_EveryCallCompletes ==
    \A a \in SeededAreas, at \in {"lambda_clamp", "rest_clamp"} :
        InFlightOn(a, at) ~> ~InFlightOn(a, at)
C21_Witness ==
    /\ BagCardinality(inflight) = MaxCalls
    /\ \E h, g \in BagToSet(inflight) :
          h.area_id = "weight-room" /\ g.area_id = "pool" /\ h.path # g.path

C23_ClosedAreaUpdates ==
    (/\ JustAnswered /\ last.call.path \in {"lambda", "rest", "reset"}
     /\ last.call.known /\ ~Unavailable(last.call)
     /\ last.call.pre >= 0 /\ ~last.call.was_open)
        => /\ last.status = 200
           /\ Count(last.call.area_id) =
                 IF IsApply(last.call)
                    THEN Max(0, last.call.pre + CoreDelta(last.call))
                    ELSE Max(0, last.call.delta)
           /\ ~table[last.call.area_id].is_open
C23_Witness ==
    /\ JustAnswered /\ last.call.path = "rest" /\ last.status = 200
    /\ ~last.call.was_open /\ ~table[last.call.area_id].is_open
    /\ last.call.pre = 2 /\ Count(last.call.area_id) = 3

\* C24: the new_count a reset answered with success reports is the
\* current_count that reset left stored, whatever count was asked for.
C24_ResetReportsStored ==
    (JustAnswered /\ last.call.path = "reset" /\ last.status = 200)
        => last.new_count = Count(last.call.area_id)

\* C25: no storage write of a seeding turn changes the current_count of an
\* area that has a registry record when the write is made, however the turn
\* interleaves with events and create_area calls, and also when its
\* existence check raised.
C25_SeedKeepsCount ==
    [][\A h \in BagToSet(inflight) :
          (/\ h.path = "seed" /\ CopiesIn(h, inflight') < CopiesIn(h, inflight)
           /\ table[h.area_id].meta)
             => table'[h.area_id].current_count = table[h.area_id].current_count]_vars

\* C26: every entry of a list read answered with success names an area that
\* has a stored item at that moment and carries that item's current_count.
C26_ListFromStore ==
    [][(ListAnswered /\ last'.status = 200)
          => \A e \in last'.areas :
                /\ e.area_id \in AreaIds
                /\ table[e.area_id].present
                /\ e.current_count = table[e.area_id].current_count]_vars

\* the sum of the increments of the applies ops
RECURSIVE Applied(_)
Applied(ops) == IF ops = << >> THEN 0 ELSE Head(ops).arg + Applied(Tail(ops))

ClampPending(a) ==
    \E h \in Standing("lambda_clamp") \cup Standing("rest_clamp") : h.area_id = a

\* C28: with no storage call failing, whenever no apply or set is in flight
\* every stored current_count is >= 0, however the operations before
\* interleaved; a negative count is stored only while the apply that wrote
\* it, or a later one, still has its corrective write to 0 ahead.
C28_QuiescentNonNegative ==
    /\ inflight = EmptyBag => \A a \in AreaIds : Count(a) >= 0
    /\ \A a \in AreaIds : Count(a) < 0 => ClampPending(a)
C28_Witness ==
    /\ inflight = EmptyBag
    /\ Len(hist["weight-room"]) = MaxCalls
    /\ \A i \in DOMAIN hist["weight-room"] :
          hist["weight-room"][i].kind = "apply" /\ hist["weight-room"][i].arg < 0
    /\ last.call.pre < 0 /\ last.status = 200
    /\ Count("weight-room") = 0

\* C29: the new_count of an apply answered with success is >= 0, whatever
\* other applies and sets on the area were in flight during the call and
\* whatever negative count was stored in between.
C29_ReturnedNonNegative ==
    (IsApply(last.call) /\ last.status = 200) => last.new_count >= 0
C29_Witness ==
    /\ IsApply(last.call) /\ last.status = 200
    /\ last.call.pre < 0 /\ last.call.delta < 0
    /\ last.new_count = 0
    /\ Count(last.call.area_id) < 0
    /\ ClampPending(last.call.area_id)

\* C30: with storage available, a read of an area whose item has the
\* registry attributes and a current_count is answered with success and the
\* stored count, at every moment, applies on the area in flight or not.
C30_ReadNeverErrors ==
    [][(/\ ReadAnswered /\ last'.call.known /\ table[last'.call.area_id].has_count
        /\ ~Unavailable(last'.call))
          => /\ last'.status = 200
             /\ last'.new_count = Count(last'.call.area_id)]_vars

\* C31: no step moves the stored last_updated of a seeded area backwards,
\* when every apply and set reads the clock as it is called and its write
\* commits later, however the calls interleave.
C31_LastUpdatedMonotonic ==
    [][\A a \in SeededAreas :
          table'[a].last_updated >= table[a].last_updated]_vars

\* the item of the area of call c as it was stored when c arrived, as far
\* as the count goes
PreItem(c) == [table[c.area_id] EXCEPT !.has_count = TRUE, !.current_count = c.pre]
\* the action of a single-person event with this delta
ActionOf(delta) == IF delta > 0 THEN "enter" ELSE "exit"

\* C32: when each event completes before the next arrives, a single-person
\* event on a registered area answered with success, whichever update path
\* handled it, leaves the current_count that the Lambda path run alone and
\* the REST path run alone each leave from the count stored when it
\* arrived; so the same events handed to either path leave the same counts
\* after every event.
C32_PathsAgree ==
    (/\ JustAnswered /\ IsApply(last.call) /\ last.status = 200
     /\ last.call.known /\ last.call.delta \in {1, -1})
        => LET c == last.call
               action == ActionOf(c.delta)
           IN /\ Count(c.area_id) = LambdaRun(PreItem(c), action, 1, now).current_count
              /\ Count(c.area_id) = RestRun(PreItem(c), action, now).current_count
C32_Witness ==
    /\ JustAnswered /\ last.call.path = "rest" /\ last.status = 200
    /\ last.call.known /\ last.call.delta = -1 /\ last.call.pre = 3
    /\ Count(last.call.area_id) = 2
    /\ LambdaRun(PreItem(last.call), "exit", 1, now).current_count = 2

\* C33: a health check is answered with status healthy, degraded or
\* unhealthy; the status is healthy exactly when database_connected is
\* true, and that is exactly when the service has its table handle and the
\* connection probe did not raise.
C33_HealthStatus ==
    last.call.path = "health"
        => /\ last.status = 200
           /\ last.health \in {"healthy", "degraded", "unhealthy"}
           /\ (last.health = "healthy") <=> last.database_connected
           /\ last.database_connected <=> (db_table /\ ~last.call.faulted)
C33_Witness ==
    /\ last.call.path = "health" /\ last.call.faulted /\ db_table
    /\ last.health = "degraded" /\ ~last.database_connected
    /\ inflight # EmptyBag

====
